---- MODULE Spec2Model ----
(***************************************************************************)
(* A state-machine model of train_mnist.py: the checkpoint loads, the      *)
(* learning loop (shuffle, minibatch updates, metric accumulation,         *)
(* reports, evaluation pass) and the final saves.                          *)
(*                                                                         *)
(* Scaling.  The split point N is 60000 in the script and the test set has *)
(* the remaining rows; here N ranges over 1..MaxN and N_test over          *)
(* 0..MaxNTest.  The dataset is assumed to hold at least N rows.           *)
(*                                                                         *)
(* Abstraction.  Tensors are not modelled.  A batch is the sequence of the *)
(* dataset rows it holds; the parameters, the gradients, the loss and the  *)
(* reconstruction error are integers computed by fixed deterministic       *)
(* functions of their inputs (Loss, Mse, Grad, SgdStep).  The global numpy *)
(* random state is a counter; Permutation decodes it into a permutation.   *)
(* A reported mean is kept as the exact fraction (numerator, denominator). *)
(* Failures of the plotting, image and graph side channels and of the      *)
(* final saves are not modelled.                                           *)
(***************************************************************************)
EXTENDS Integers, Sequences, FiniteSets, TLC

\* ---------------------------------------------------------------- bounds
MaxN == 3
MaxNTest == 2
MaxEpoch == 2
MaxBatch == 3
MaxSeed == 3
MaxElapsed == 2
ParamMod == 5

VARIABLES
    n_epoch, batchsize, initmodel, resume,  \* args (lines 36-43, 28-31)
    N, N_test,                               \* dataset split (lines 58-61)
    seed,                \* history: the random state after construction
    rng,                 \* np.random global state
    params,              \* the model's parameters
    opt_t,               \* optimizer state (SGD's update counter t)
    grads,               \* the parameters' gradient accumulators
    opt_phase,           \* Idle / ComputingGradients / ApplyingUpdate
    loss, mean_squared_error,   \* model.loss, model.mean_squared_error
    epoch, i, perm, x,
    sum_loss, sum_mean_squared_error,
    elapsed_time,
    reported,            \* the printed report lines, in order
    saved,               \* the files written by save_npz, in order
    graph_generated, image_saved,
    error,               \* the uncaught exception, "none" while running
    batch_log,           \* history: the batches of the current phase
    params_at_train_end, \* history: params when the training loop ended
    pc

vars == << n_epoch, batchsize, initmodel, resume, N, N_test, seed, rng,
           params, opt_t, grads, opt_phase, loss, mean_squared_error,
           epoch, i, perm, x, sum_loss, sum_mean_squared_error,
           elapsed_time, reported, saved, graph_generated, image_saved,
           error, batch_log, params_at_train_end, pc >>

cfgVars == << n_epoch, batchsize, initmodel, resume, N, N_test, seed >>

\* ------------------------------------------------------- pure functions
RECURSIVE SumSeq(_)
SumSeq(s) == IF s = << >> THEN 0 ELSE Head(s) + SumSeq(Tail(s))

Min(a, b) == IF a < b THEN a ELSE b

\* Python's s[lo:hi] for 0 <= lo <= hi (0-based, half-open, clamped).
Slice(s, lo, hi) ==
    LET top == Min(hi, Len(s))
    IN  IF lo >= top THEN << >> ELSE [k \in 1..(top - lo) |-> s[lo + k]]

\* Whether a Python range(0, stop, step) with step /= 0 still yields v.
InRange(v, stop, step) == step > 0 /\ v < stop

RECURSIVE Fact(_)
Fact(n) == IF n <= 1 THEN 1 ELSE n * Fact(n - 1)

RemoveAt(s, k) == [j \in 1..(Len(s) - 1) |-> IF j < k THEN s[j] ELSE s[j + 1]]

RECURSIVE NthPerm(_, _)
NthPerm(k, items) ==
    IF items = << >> THEN << >>
    ELSE LET f == Fact(Len(items) - 1)
             d == (k \div f) + 1
         IN  << items[d] >> \o NthPerm(k % f, RemoveAt(items, d))

\* np.random.permutation(n) drawn in random state r: a permutation of
\* 0..n-1 that is a function of the state alone.
Permutation(r, n) == NthPerm(r % Fact(n), [k \in 1..n |-> k - 1])

\* The random state after one permutation has been drawn.
NextRng(r) == r + 1

\* The random state np.random.permutation draws from.
PermSourceTiming == elapsed_time
PermSource == rng

\* x_train[idx] and x_test[idx] as rows of the dataset: x_test = data[N:].
TrainRows(idx) == idx
TestRows(lo, hi) == IF lo >= hi THEN << >> ELSE [k \in 1..(hi - lo) |-> N + lo + k - 1]

\* The loss module's forward pass on parameters p and batch b.
Loss(p, b) == (p + SumSeq(b)) % ParamMod
Mse(p, b) == (p + 2 * SumSeq(b) + Len(b)) % ParamMod

\* Backpropagation: the gradient of the loss at p on batch b, never zero.
Grad(p, b) == 1 + ((p + SumSeq(b)) % (ParamMod - 1))

\* target.zerograds(): the accumulators before loss.backward() adds to them.
LeakGrads(g) == g
ZeroGrads(g) == 0

\* The SGD rule applied to p with accumulated gradient g.
SgdStep(p, g) == (p + g) % ParamMod

\* The parameters after a forward pass with volatile='on' (no update).
EvalTrains(p, b) == SgdStep(p, Grad(p, b))
ForwardOnly(p, b) == p

\* Contents of the checkpoint files.
LoadedParams == ParamMod - 1
LoadedOptT == 1
InitParams == 0

\* Where control goes when load_npz raises instead of reaching the next
\* statement: the exception is not caught, the script ends.
ContinueAfterFailure(next) == next
OnLoadFailure(next) == "aborted"

\* The value the accumulators get at the start of the evaluation phase.
CarriedOver(v) == v
EvalReset(v) == 0

\* The slice of the permutation the training loop takes at offset k.
TrainSliceShort(k) == Slice(perm, k, k + batchsize - 1)
TrainSlice(k) == Slice(perm, k, k + batchsize)

\* The slice of the test set the evaluation loop takes at offset k.
EvalSlice(k) == TestRows(Min(k, N_test), Min(k + batchsize, N_test))

\* The weighted contribution of one batch to a running sum.
Unweighted(v, b) == v
Weighted(v, b) == v * Len(b)

\* Whether the epoch loop has another iteration after epoch e.
StopsAfterFirst(e) == e + 1 <= n_epoch /\ e < 1
MoreEpochs(e) == e + 1 <= n_epoch

\* ------------------------------------------------------------------ Init
Init ==
    /\ n_epoch \in (-1)..MaxEpoch
    /\ batchsize \in (-1)..MaxBatch
    /\ initmodel \in BOOLEAN
    /\ resume \in BOOLEAN
    /\ N \in 1..MaxN
    /\ N_test \in 0..MaxNTest
    /\ seed \in 0..MaxSeed
    /\ rng = seed
    /\ params = InitParams
    /\ opt_t = 0
    /\ grads = 0
    /\ opt_phase = "Idle"
    /\ loss = 0
    /\ mean_squared_error = 0
    /\ epoch = 0
    /\ i = 0
    /\ perm = << >>
    /\ x = << >>
    /\ sum_loss = 0
    /\ sum_mean_squared_error = 0
    /\ elapsed_time = 0
    /\ reported = << >>
    /\ saved = << >>
    /\ graph_generated = FALSE
    /\ image_saved = FALSE
    /\ error = "none"
    /\ batch_log = << >>
    /\ params_at_train_end = InitParams
    /\ pc = "init_model"

\* --------------------------------------------------------------- actions
\* Lines 91-93: load the model checkpoint when --initmodel is given.
LoadModel ==
    /\ pc = "init_model"
    /\ \E ok \in BOOLEAN :
         IF ~initmodel
         THEN /\ ok
              /\ pc' = "init_resume"
              /\ UNCHANGED << params, error >>
         ELSE IF ok
         THEN /\ params' = LoadedParams
              /\ pc' = "init_resume"
              /\ UNCHANGED error
         ELSE /\ error' = "IOError"
              /\ pc' = OnLoadFailure("init_resume")
              /\ UNCHANGED params
    /\ UNCHANGED << cfgVars, rng, opt_t, grads, opt_phase, loss,
                    mean_squared_error, epoch, i, perm, x, sum_loss,
                    sum_mean_squared_error, elapsed_time, reported, saved,
                    graph_generated, image_saved, batch_log,
                    params_at_train_end >>

\* Lines 94-96: load the optimizer snapshot when --resume is given.
LoadOptimizer ==
    /\ pc = "init_resume"
    /\ \E ok \in BOOLEAN :
         IF ~resume
         THEN /\ ok
              /\ pc' = "epoch_head"
              /\ UNCHANGED << opt_t, error >>
         ELSE IF ok
         THEN /\ opt_t' = LoadedOptT
              /\ pc' = "epoch_head"
              /\ UNCHANGED error
         ELSE /\ error' = "IOError"
              /\ pc' = OnLoadFailure("epoch_head")
              /\ UNCHANGED opt_t
    /\ UNCHANGED << cfgVars, rng, params, grads, opt_phase, loss,
                    mean_squared_error, epoch, i, perm, x, sum_loss,
                    sum_mean_squared_error, elapsed_time, reported, saved,
                    graph_generated, image_saved, batch_log,
                    params_at_train_end >>

\* Lines 99-107: the epoch loop's head, the shuffle, the accumulators'
\* reset and the construction of the training range (a zero step raises).
EpochStart ==
    /\ pc = "epoch_head"
    /\ IF MoreEpochs(epoch)
       THEN /\ epoch' = epoch + 1
            /\ perm' = Permutation(PermSource, N)
            /\ rng' = NextRng(rng)
            /\ sum_mean_squared_error' = 0
            /\ sum_loss' = 0
            /\ i' = 0
            /\ batch_log' = << >>
            /\ IF batchsize = 0
               THEN error' = "ValueError" /\ pc' = "aborted"
               ELSE error' = error /\ pc' = "train"
       ELSE /\ pc' = "save_model"
            /\ UNCHANGED << epoch, perm, rng, sum_mean_squared_error,
                            sum_loss, i, batch_log, error >>
    /\ UNCHANGED << cfgVars, params, opt_t, grads, opt_phase, loss,
                    mean_squared_error, x, elapsed_time, reported, saved,
                    graph_generated, image_saved, params_at_train_end >>

\* Lines 108-112, first half of optimizer.update: the batch is built, the
\* loss is computed, the gradients are zeroed and backpropagated.
UpdateBegin ==
    /\ pc = "train"
    /\ InRange(i, N, batchsize)
    /\ opt_phase = "Idle"
    /\ x' = TrainRows(TrainSlice(i))
    /\ loss' = Loss(params, x')
    /\ mean_squared_error' = Mse(params, x')
    /\ grads' = ZeroGrads(grads) + Grad(params, x')
    /\ opt_phase' = "ComputingGradients"
    /\ pc' = "update_apply"
    /\ UNCHANGED << cfgVars, rng, params, opt_t, epoch, i, perm, sum_loss,
                    sum_mean_squared_error, elapsed_time, reported, saved,
                    graph_generated, image_saved, error, batch_log,
                    params_at_train_end >>

\* Line 112, second half of optimizer.update: the rule is applied.
UpdateApply ==
    /\ pc = "update_apply"
    /\ opt_phase = "ComputingGradients"
    /\ opt_phase' = "ApplyingUpdate"
    /\ params' = SgdStep(params, grads)
    /\ opt_t' = opt_t + 1
    /\ pc' = "update_finish"
    /\ UNCHANGED << cfgVars, rng, grads, loss, mean_squared_error, epoch, i,
                    perm, x, sum_loss, sum_mean_squared_error, elapsed_time,
                    reported, saved, graph_generated, image_saved, error,
                    batch_log, params_at_train_end >>

\* Lines 112-122: optimizer.update returns, the graph is dumped once, the
\* batch's loss and error are accumulated, the loop advances.
UpdateFinish ==
    /\ pc = "update_finish"
    /\ opt_phase = "ApplyingUpdate"
    /\ opt_phase' = "Idle"
    /\ graph_generated' = (graph_generated \/ (epoch = 1 /\ i = 0))
    /\ sum_loss' = sum_loss + Weighted(loss, x)
    /\ sum_mean_squared_error' =
           sum_mean_squared_error + Weighted(mean_squared_error, x)
    /\ batch_log' = Append(batch_log,
                           [x |-> x, loss |-> loss, mse |-> mean_squared_error])
    /\ i' = i + batchsize
    /\ pc' = "train"
    /\ UNCHANGED << cfgVars, rng, params, opt_t, grads, loss,
                    mean_squared_error, epoch, perm, x, elapsed_time,
                    reported, saved, image_saved, error,
                    params_at_train_end >>

\* Lines 123-127: the training loop is over; time it and report the means.
TrainReport ==
    /\ pc = "train"
    /\ ~InRange(i, N, batchsize)
    /\ \E e \in 1..MaxElapsed : elapsed_time' = e
    /\ reported' = Append(reported,
                          [epoch |-> epoch, phase |-> "train",
                           loss |-> << sum_loss, N >>,
                           mse |-> << sum_mean_squared_error, N >>])
    /\ params_at_train_end' = params
    /\ pc' = "eval_reset"
    /\ UNCHANGED << cfgVars, rng, params, opt_t, grads, opt_phase, loss,
                    mean_squared_error, epoch, i, perm, x, sum_loss,
                    sum_mean_squared_error, saved, graph_generated,
                    image_saved, error, batch_log >>

\* Lines 129-138: the accumulators are reset and the evaluation range built.
EvalStart ==
    /\ pc = "eval_reset"
    /\ sum_mean_squared_error' = EvalReset(sum_mean_squared_error)
    /\ sum_loss' = EvalReset(sum_loss)
    /\ i' = 0
    /\ batch_log' = << >>
    /\ pc' = "eval"
    /\ UNCHANGED << cfgVars, rng, params, opt_t, grads, opt_phase, loss,
                    mean_squared_error, epoch, perm, x, elapsed_time,
                    reported, saved, graph_generated, image_saved, error,
                    params_at_train_end >>

\* Lines 138-169: one evaluation batch: forward pass, accumulation, and for
\* the first batch the reconstruction aeback(ae(x)) and its image.
EvalBatch ==
    /\ pc = "eval"
    /\ InRange(i, N_test, batchsize)
    /\ x' = EvalSlice(i)
    /\ loss' = Loss(params, x')
    /\ mean_squared_error' = Mse(params, x')
    /\ params' = ForwardOnly(params, x')
    /\ sum_loss' = sum_loss + Weighted(loss', x')
    /\ sum_mean_squared_error' =
           sum_mean_squared_error + Weighted(mean_squared_error', x')
    /\ batch_log' = Append(batch_log,
                           [x |-> x', loss |-> loss', mse |-> mean_squared_error'])
    /\ image_saved' = (image_saved \/ i = 0)
    /\ i' = i + batchsize
    /\ UNCHANGED << cfgVars, rng, opt_t, grads, opt_phase, epoch, perm,
                    elapsed_time, reported, saved, graph_generated, error,
                    params_at_train_end, pc >>

\* Lines 171-172: report the test means; dividing by N_test = 0 raises.
TestReport ==
    /\ pc = "eval"
    /\ ~InRange(i, N_test, batchsize)
    /\ IF N_test = 0
       THEN /\ error' = "ZeroDivisionError"
            /\ pc' = "aborted"
            /\ UNCHANGED reported
       ELSE /\ reported' = Append(reported,
                                  [epoch |-> epoch, phase |-> "test",
                                   loss |-> << sum_loss, N_test >>,
                                   mse |-> << sum_mean_squared_error, N_test >>])
            /\ pc' = "epoch_head"
            /\ UNCHANGED error
    /\ UNCHANGED << cfgVars, rng, params, opt_t, grads, opt_phase, loss,
                    mean_squared_error, epoch, i, perm, x, sum_loss,
                    sum_mean_squared_error, elapsed_time, saved,
                    graph_generated, image_saved, batch_log,
                    params_at_train_end >>

\* Lines 175-176: save the model.
SaveModel ==
    /\ pc = "save_model"
    /\ saved' = Append(saved, [file |-> "mlp.model", content |-> params])
    /\ pc' = "save_state"
    /\ UNCHANGED << cfgVars, rng, params, opt_t, grads, opt_phase, loss,
                    mean_squared_error, epoch, i, perm, x, sum_loss,
                    sum_mean_squared_error, elapsed_time, reported,
                    graph_generated, image_saved, error, batch_log,
                    params_at_train_end >>

\* Lines 177-178: save the optimizer.
SaveOptimizer ==
    /\ pc = "save_state"
    /\ saved' = Append(saved, [file |-> "mlp.state", content |-> opt_t])
    /\ pc' = "done"
    /\ UNCHANGED << cfgVars, rng, params, opt_t, grads, opt_phase, loss,
                    mean_squared_error, epoch, i, perm, x, sum_loss,
                    sum_mean_squared_error, elapsed_time, reported,
                    graph_generated, image_saved, error, batch_log,
                    params_at_train_end >>

Next ==
    \/ LoadModel
    \/ LoadOptimizer
    \/ EpochStart
    \/ UpdateBegin
    \/ UpdateApply
    \/ UpdateFinish
    \/ TrainReport
    \/ EvalStart
    \/ EvalBatch
    \/ TestReport
    \/ SaveModel
    \/ SaveOptimizer

Spec == Init /\ [][Next]_vars

\* The script is one sequential process: a step that can run does run.
FairSpec == Spec /\ WF_vars(Next)

\* ------------------------------------------------- helpers of the claims
RECURSIVE FlattenX(_)
FlattenX(log) == IF log = << >> THEN << >> ELSE Head(log).x \o FlattenX(Tail(log))

RECURSIVE WSumLoss(_)
WSumLoss(log) ==
    IF log = << >> THEN 0 ELSE Head(log).loss * Len(Head(log).x) + WSumLoss(Tail(log))

RECURSIVE WSumMse(_)
WSumMse(log) ==
    IF log = << >> THEN 0 ELSE Head(log).mse * Len(Head(log).x) + WSumMse(Tail(log))

TotalLen(log) == Len(FlattenX(log))

InTraining == pc \in {"train", "update_apply", "update_finish"}
InEvaluation == pc \in {"eval_reset", "eval"}
Terminated == pc \in {"done", "aborted"}
PositiveConfig == n_epoch >= 1 /\ batchsize >= 1

\* The j-th contiguous chunk (j = 1, 2, ...) of sequence s in chunks of b.
ChunkOf(s, j, b) ==
    [k \in 1..Min(b, Len(s) - (j - 1) * b) |-> s[(j - 1) * b + k]]

NumChunks(n, b) == (n + b - 1) \div b

LastReport == reported[Len(reported)]

\* ------------------------------------------------------------------- C1
\* C1: with batchsize >= 1 the batches passed to optimizer.update in an
\* epoch are the contiguous chunks of that epoch's permutation of 0..N-1:
\* all of size batchsize except a last one of size N mod batchsize when that
\* is non-zero, and once the loop is over their concatenation is the
\* permutation itself, so every index was passed exactly once.
C1_TrainingPartition ==
    (InTraining /\ batchsize >= 1) =>
        /\ Len(perm) = N
        /\ {perm[k] : k \in 1..N} = 0..(N - 1)
        /\ Len(batch_log) * batchsize = i
        /\ \A j \in 1..Len(batch_log) :
               batch_log[j].x = ChunkOf(perm, j, batchsize)
        /\ (pc # "train") => x = ChunkOf(perm, Len(batch_log) + 1, batchsize)
        /\ (pc = "train" /\ i >= N) =>
               /\ FlattenX(batch_log) = perm
               /\ Len(batch_log) = NumChunks(N, batchsize)
               /\ \A j \in 1..(Len(batch_log) - 1) :
                      Len(batch_log[j].x) = batchsize
               /\ Len(batch_log[Len(batch_log)].x) =
                      IF N % batchsize = 0 THEN batchsize ELSE N % batchsize

\* A finished training loop over 3 samples in batches of 2: sizes [2, 1].
C1_Witness ==
    /\ pc = "train" /\ i >= N /\ N = 3 /\ batchsize = 2
    /\ Len(batch_log) = 2
    /\ Len(batch_log[1].x) = 2
    /\ Len(batch_log[2].x) = 1

\* ------------------------------------------------------------------- C2
\* C2: the means reported for a phase are the sums over the phase's batches
\* of (batch value * batch length) over the number of samples the phase
\* processed, for the loss and for the reconstruction error, in the training
\* and in the test report (a phase that processed at least one batch).
ReportMatches(r, phase) ==
    /\ r.phase = phase
    /\ r.epoch = epoch
    /\ r.loss[1] = WSumLoss(batch_log)
    /\ r.mse[1] = WSumMse(batch_log)
    /\ (batch_log # << >>) =>
           /\ r.loss[2] = TotalLen(batch_log)
           /\ r.mse[2] = TotalLen(batch_log)

C2_WeightedMeans ==
    /\ (pc = "eval_reset") => ReportMatches(LastReport, "train")
    /\ (pc = "epoch_head" /\ epoch >= 1) => ReportMatches(LastReport, "test")

\* A training report over batches of sizes [2, 1] with different, non-zero
\* per-batch losses.
C2_Witness ==
    /\ pc = "eval_reset"
    /\ Len(batch_log) = 2
    /\ Len(batch_log[1].x) = 2
    /\ Len(batch_log[2].x) = 1
    /\ batch_log[1].loss # batch_log[2].loss
    /\ batch_log[1].loss > 0
    /\ batch_log[2].loss > 0
    /\ LastReport.loss = << WSumLoss(batch_log), 3 >>

\* ------------------------------------------------------------------- C3
\* C3: an update goes Idle, ComputingGradients, ApplyingUpdate, Idle, one
\* update at a time, and the gradient applied for a batch is the gradient of
\* that batch at the current parameters alone: nothing of an earlier batch's
\* gradient is left in the accumulators.
C3_PhaseInv ==
    /\ (opt_phase = "Idle") <=> (pc \notin {"update_apply", "update_finish"})
    /\ (opt_phase = "ComputingGradients") <=> (pc = "update_apply")
    /\ (opt_phase = "ApplyingUpdate") <=> (pc = "update_finish")
    /\ (pc = "update_apply") => grads = Grad(params, x)

C3_PhaseStep ==
    /\ (opt_phase' # opt_phase) =>
           \/ opt_phase = "Idle" /\ opt_phase' = "ComputingGradients"
           \/ opt_phase = "ComputingGradients" /\ opt_phase' = "ApplyingUpdate"
           \/ opt_phase = "ApplyingUpdate" /\ opt_phase' = "Idle"
    /\ (opt_phase = "ComputingGradients" /\ opt_phase' # opt_phase) =>
           params' = SgdStep(params, Grad(params, x))

C3_NoGradientLeak == [](C3_PhaseInv) /\ [][C3_PhaseStep]_vars

\* The gradients of a second batch have been computed after a first update.
C3_Witness ==
    /\ pc = "update_apply"
    /\ Len(batch_log) >= 1
    /\ opt_t >= 1
    /\ grads = Grad(params, x)

\* ------------------------------------------------------------------- C4
\* C4: once the learning loop has started, a step changes the parameters or
\* the optimizer state only if it is the update step of the training phase;
\* through the evaluation pass and its report the parameters are those the
\* training loop of that epoch ended with.
C4_FrameInv ==
    (InEvaluation \/ (pc = "epoch_head" /\ epoch >= 1)) =>
        params = params_at_train_end

C4_FrameStep ==
    (params' # params \/ opt_t' # opt_t) =>
        \/ pc = "update_apply"
        \/ pc \in {"init_model", "init_resume"}

C4_OnlyUpdateWrites == [](C4_FrameInv) /\ [][C4_FrameStep]_vars

\* An evaluation pass has ended after training changed the parameters.
C4_Witness ==
    /\ pc = "epoch_head"
    /\ epoch >= 1
    /\ Len(batch_log) >= 2
    /\ image_saved
    /\ opt_t >= 2
    /\ params # InitParams

\* ------------------------------------------------------------------- C5
\* C5: after a failed checkpoint load the run is aborted: no update has been
\* or will be performed, no epoch is entered, nothing is reported or saved.
C5_LoadFailureAborts ==
    (error = "IOError") =>
        /\ pc = "aborted"
        /\ opt_t = 0
        /\ opt_phase = "Idle"
        /\ epoch = 0
        /\ batch_log = << >>
        /\ reported = << >>
        /\ saved = << >>

\* The optimizer snapshot failed to load after the model loaded, in a
\* configuration that would otherwise train.
C5_Witness ==
    /\ error = "IOError"
    /\ pc = "aborted"
    /\ initmodel /\ resume
    /\ params = LoadedParams
    /\ PositiveConfig

\* ------------------------------------------------------------------- C6
\* C6: with a non-positive epoch count or batch size the run never enters
\* the learning loop, never reports epoch metrics and never saves.
C6_NonPositiveRejected ==
    (n_epoch <= 0 \/ batchsize <= 0) =>
        /\ epoch = 0
        /\ reported = << >>
        /\ saved = << >>
        /\ pc # "done"

\* ------------------------------------------------------------------- C7
\* C7: both running sums are zero when a phase (training or test, of any
\* epoch) starts, and at every point of a phase they hold the contributions
\* of that phase's batches only.
C7_AccumulatorsReset ==
    /\ ((pc = "train" \/ pc = "eval") /\ batch_log = << >>) =>
           (sum_loss = 0 /\ sum_mean_squared_error = 0)
    /\ (InTraining \/ pc = "eval") =>
           /\ sum_loss = WSumLoss(batch_log)
           /\ sum_mean_squared_error = WSumMse(batch_log)

\* The test phase of the second epoch starts after training phases that
\* reported non-zero sums.
C7_Witness ==
    /\ pc = "eval"
    /\ batch_log = << >>
    /\ epoch = 2
    /\ Len(reported) = 3
    /\ reported[1].loss[1] > 0
    /\ reported[2].loss[1] > 0
    /\ reported[3].loss[1] > 0
    /\ reported[3].mse[1] > 0

\* ------------------------------------------------------------------- C8
\* C8: when an epoch's evaluation pass is over, the batches it evaluated are
\* the contiguous chunks of the test set in increasing order, so that every
\* test sample was evaluated exactly once.
C8_EvalVisitsAll ==
    (pc = "epoch_head" /\ epoch >= 1) =>
        /\ FlattenX(batch_log) = [k \in 1..N_test |-> N + k - 1]
        /\ \A j \in 1..Len(batch_log) :
               batch_log[j].x =
                   ChunkOf([k \in 1..N_test |-> N + k - 1], j, batchsize)

\* ------------------------------------------------------------------- C9
\* C9: the permutation of every epoch and the parameters after every epoch
\* are functions of the initial random state, the configuration and the
\* initial parameters alone (not of timing or of anything else a run meets),
\* so two runs that agree on those agree on every minibatch and on the
\* saved parameters.
StartParams == IF initmodel THEN LoadedParams ELSE InitParams

RECURSIVE TrainedEpoch(_, _, _)
TrainedEpoch(p, pm, j) ==
    IF batchsize >= 1 /\ (j - 1) * batchsize < N
    THEN LET b == ChunkOf(pm, j, batchsize)
         IN  TrainedEpoch(SgdStep(p, Grad(p, b)), pm, j + 1)
    ELSE p

RECURSIVE TrainedRun(_)
TrainedRun(e) ==
    IF e <= 0 THEN StartParams
    ELSE TrainedEpoch(TrainedRun(e - 1), Permutation(seed + e - 1, N), 1)

C9_SeedDeterminesRun ==
    /\ rng = seed + epoch
    /\ (epoch >= 1) => perm = Permutation(seed + epoch - 1, N)
    /\ (InEvaluation \/ (pc = "epoch_head" /\ epoch >= 1)) =>
           params = TrainedRun(epoch)
    /\ (pc = "done") =>
           /\ params = TrainedRun(n_epoch)
           /\ saved[1].content = TrainedRun(n_epoch)

\* A finished two-epoch run over at least two samples whose parameters were
\* trained away from their initial value.
C9_Witness ==
    /\ pc = "done"
    /\ n_epoch = 2
    /\ N = 3
    /\ batchsize = 2
    /\ elapsed_time = 2
    /\ params # StartParams
    /\ saved[1].content = params

\* ------------------------------------------------------------------ C10
\* C10: with a positive epoch count and batch size the reports come in the
\* order train 1, test 1, train 2, test 2, ...; the training loop of an epoch
\* is over before its evaluation starts and the evaluation is over before
\* the next epoch; the model and then the optimizer are saved once each,
\* only after the last epoch's test report, never in an aborted run; and the
\* run ends (done or aborted).
C10_PhaseInv ==
    PositiveConfig =>
        /\ \A k \in 1..Len(reported) :
               /\ reported[k].epoch = (k + 1) \div 2
               /\ reported[k].phase = IF k % 2 = 1 THEN "train" ELSE "test"
        /\ InTraining => Len(reported) = 2 * (epoch - 1)
        /\ InEvaluation => (Len(reported) = 2 * epoch - 1 /\ i >= 0)
        /\ (pc = "eval_reset") => i >= N
        /\ (pc = "epoch_head" /\ epoch >= 1) =>
               (Len(reported) = 2 * epoch /\ i >= N_test)
        /\ (pc \in {"save_model", "save_state", "done"}) =>
               (epoch = n_epoch /\ Len(reported) = 2 * n_epoch)
        /\ (pc = "save_model") => saved = << >>
        /\ (pc = "save_state") =>
               (Len(saved) = 1 /\ saved[1].file = "mlp.model")
        /\ (pc = "done") =>
               /\ Len(saved) = 2
               /\ saved[1].file = "mlp.model"
               /\ saved[2].file = "mlp.state"
        /\ (pc \notin {"save_state", "done"}) => saved = << >>

C10_PhaseOrderAndTermination ==
    [](C10_PhaseInv) /\ (PositiveConfig ~> Terminated)

\* A two-epoch run has ended with its four reports and both files saved.
C10_Witness ==
    /\ pc = "done"
    /\ PositiveConfig
    /\ n_epoch = 2
    /\ Len(reported) = 4
    /\ Len(saved) = 2
    /\ N = 3 /\ N_test = 2 /\ batchsize = 2

====
